---- MODULE Spec2Model ----
(***************************************************************************)
(* A model of eva's dynamic factory and figure driver:                     *)
(*   src/src/eva/utilities/utils.py      camelcase_to_underscore,          *)
(*                                       get_schema                        *)
(*   src/src/eva/base.py                 Config, Base, Factory,            *)
(*                                       create_and_run,                   *)
(*                                       loop_and_create_and_run           *)
(*   src/src/eva/plot_tools/figure_driver.py   FigureDriver                *)
(*                                                                         *)
(* Python strings are sequences of one-character strings, so that the      *)
(* character scans of the code are computed and not assumed.  A call that  *)
(* can raise returns a record: Ok(v) or Raise(e).                          *)
(***************************************************************************)
EXTENDS Integers, Sequences, FiniteSets, TLC

VARIABLES
    comp,       \* which entry point this behaviour runs: "name", "run", "fig"
    ccIn,       \* camelcase_to_underscore: the argument
    ccOut,      \* camelcase_to_underscore: the result, once called
    ccPc,       \* "idle", "call", "done"
    rMode,      \* "one": create_and_run, "many": loop_and_create_and_run
    rName,      \* create_and_run from main: eva_class_name
    rConfig,    \* create_and_run from main: config (a dict or a path)
    rDoc,       \* loop_and_create_and_run: the document the YAML file holds
    rApps,      \* loop_and_create_and_run: apps, once read
    rIdx,       \* loop_and_create_and_run: position of the for loop in apps
    rTrace,     \* what the Runner did so far, in order
    rInst,      \* the diagnostic objects constructed so far
    rErr,       \* the exception that ended the run, or "none"
    rPc,        \* "idle", "one", "many", "loop", "returned", "aborted", "raised"
    fDefault,   \* FigureDriver: what the default figure schema file holds
    fGraphicNo, \* FigureDriver.execute: how many graphics the loop has taken
    fGraphic,   \* FigureDriver.execute: the graphic of this pass
    fMerge,     \* the result of get_schema for this graphic
    fChannels,  \* the channels the batch loops run over
    fVi,        \* position of the loop over variables
    fCi,        \* position of the loop over channels
    fCalls,     \* the make_figure calls of this graphic, in order
    fErr,       \* the exception that ended execute, or "none"
    fPc         \* "idle", "graphic", "batch", "end", "done", "aborted", "raised"

nameVars == <<ccIn, ccOut, ccPc>>

runVars == <<rMode, rName, rConfig, rDoc, rApps, rIdx, rTrace, rInst, rErr, rPc>>

figVars ==
    <<fDefault, fGraphicNo, fGraphic, fMerge, fChannels, fVi, fCi, fCalls, fErr, fPc>>

vars == <<comp, nameVars, runVars, figVars>>

----------------------------------------------------------------------------
(* Bounds of the model *)

\* longest class name given to camelcase_to_underscore
MaxNameLen == 3

\* longest 'applications' list of a document
MaxApps == 3

\* longest 'variables' list of a batch figure
MaxVars == 2

\* longest parsed 'channels' list of a batch figure
MaxChans == 2

\* most graphics of one configuration
MaxGraphics == 2

----------------------------------------------------------------------------
(* Results of calls that may raise *)

Ok(v) == [ok |-> TRUE, val |-> v, err |-> "none"]

Raise(e) == [ok |-> FALSE, val |-> <<>>, err |-> e]

NoResult == [ok |-> FALSE, val |-> <<>>, err |-> "not called"]

----------------------------------------------------------------------------
(* Characters *)

LowerLetters == {"a", "b"}

UpperLetters == {"A", "B"}

Letters == LowerLetters \cup UpperLetters

\* str.isupper() of one character
IsUpper(c) == c \in UpperLetters

\* str.lower() of one character
ToLower(c) == CASE c = "A" -> "a" [] c = "B" -> "b" [] OTHER -> c

\* str.upper() of one character
ToUpper(c) == CASE c = "a" -> "A" [] c = "b" -> "B" [] OTHER -> c

\* str.isalpha(): non-empty and every character a letter
IsAlpha(s) == Len(s) > 0 /\ \A i \in 1..Len(s) : s[i] \in Letters

\* the sequences over S of length at most n
SeqUpTo(S, n) == UNION {[1..k -> S] : k \in 0..n}

\* a Python value that is a str, and one that is not
Str(s) == [isStr |-> TRUE, s |-> s]

NotStr == [isStr |-> FALSE, s |-> <<>>]

----------------------------------------------------------------------------
(* utils.py: camelcase_to_underscore *)

\* the loop over the elements: an upper case element becomes '_' + lower
RECURSIVE ScanElements(_)
ScanElements(s) ==
    IF s = <<>> THEN <<>>
    ELSE (IF IsUpper(Head(s)) THEN <<"_", ToLower(Head(s))>> ELSE <<Head(s)>>)
         \o ScanElements(Tail(s))

\* a variant that keeps the leading underscore
StripLeadingKept(u) == u

\* if the scan results in a leading underscore then remove it
StripLeading(u) == IF u[1] = "_" THEN Tail(u) ELSE u

camelcase_to_underscore(x) ==
    IF ~x.isStr THEN Raise("TypeError")
    ELSE IF ~IsAlpha(x.s) THEN Raise("ValueError")
    ELSE Ok(StripLeading(ScanElements(x.s)))

----------------------------------------------------------------------------
(* The diagnostics package and the YAML files (not part of the sources     *)
(* modelled here): what a class name can resolve to.                       *)

\* a mapping (dict) is a function from its keys to its values
EmptyMap == [k \in {} |-> NotStr]

\* the modules of eva.diagnostics, with the classes each defines.  A class
\* either inherits Base.__init__ or brings a constructor of its own that
\* takes (class_name, config, logger) and does not call it.
DiagnosticModules ==
    (<<"a", "b">> :> {[cls |-> <<"A", "b">>, ownInit |-> FALSE]})
    @@ (<<"b", "a">> :> {[cls |-> <<"B", "a">>, ownInit |-> TRUE]})
    @@ (<<"a", "_", "b">> :> {})

\* the class names the Runner is given
ClassNames ==
    { Str(<<"A", "b">>),     \* resolves; constructed by Base.__init__
      Str(<<"B", "a">>),     \* resolves; its own constructor
      Str(<<"A", "B">>),     \* module a_b exists, without a class AB
      Str(<<"B", "b">>),     \* no module bb
      Str(<<"A", "1">>),     \* not alphabetic
      NotStr }               \* not a str

\* the document a configuration path holds
YamlDocument == ("opt" :> Str(<<"b">>))

\* config as create_and_run receives it: a dict, or the path of a YAML file
DictConfig(m) == [isDict |-> TRUE, map |-> m]

PathConfig == [isDict |-> FALSE, map |-> EmptyMap]

----------------------------------------------------------------------------
(* base.py: Config, Base, Factory, create_and_run *)

\* load_yaml_file(yaml_file) of base.py: the document of the file
load_yaml_file(path) == YamlDocument

\* the names bound at module level in base.py
BaseGlobals ==
    {"ABC", "abstractmethod", "argparse", "importlib", "json", "os", "re", "sys",
     "yaml", "Logger", "camelcase_to_underscore", "envvar_constructor",
     "load_yaml_file", "Config", "Base", "Factory", "create_and_run",
     "loop_and_create_and_run", "main"}

\* the locals of Config.__init__ that are bound when line 58 runs
ConfigLocalsAtPrint == {"self", "dict_or_yaml"}

\* Config.__init__(dict_or_yaml): the mapping the new Config holds
ConfigInit(dict_or_yaml) ==
    IF "eva_class_name" \notin BaseGlobals THEN Raise("NameError")
    ELSE IF "config" \notin ConfigLocalsAtPrint THEN Raise("UnboundLocalError")
    ELSE Ok(IF dict_or_yaml.isDict THEN dict_or_yaml.map
            ELSE load_yaml_file(dict_or_yaml))

\* a diagnostic object
Instance(cls, hasConfig, config) ==
    [cls |-> cls, hasConfig |-> hasConfig, config |-> config, executes |-> 0]

\* Base.__init__(eva_class_name, config, logger)
BaseInit(eva_class_name, config) ==
    LET c == ConfigInit(config)
    IN  IF c.ok THEN Ok(Instance(eva_class_name.s, TRUE, c.val)) ELSE Raise(c.err)

\* eva_class(eva_class_name, config, logger)
Construct(class, eva_class_name, config) ==
    IF class.ownInit THEN Ok(Instance(eva_class_name.s, FALSE, EmptyMap))
    ELSE BaseInit(eva_class_name, config)

\* Factory.create_object
create_object(eva_class_name, config) ==
    LET m == camelcase_to_underscore(eva_class_name)
    IN  IF ~m.ok THEN Raise(m.err)
        ELSE IF m.val \notin DOMAIN DiagnosticModules THEN Raise("ModuleNotFoundError")
        ELSE LET found == {c \in DiagnosticModules[m.val] : c.cls = eva_class_name.s}
             IN  IF found = {} THEN Raise("AttributeError")
                 ELSE Construct(CHOOSE c \in found : TRUE, eva_class_name, config)

\* an entry of the Runner's trace
Event(ev, i) == [ev |-> ev, i |-> i]

CreateEvent(i, name, config) == [ev |-> "create", i |-> i, name |-> name, config |-> config]

\* create_and_run(eva_class_name, config), called for entry i; execOk is
\* whether the diagnostic's execute() returns or raises
create_and_run(eva_class_name, config, i, execOk) ==
    LET o == create_object(eva_class_name, config)
    IN  IF ~o.ok
        THEN [events |-> <<CreateEvent(i, eva_class_name, config), Event("error", i)>>,
              inst |-> <<>>, err |-> o.err]
        ELSE [events |-> <<CreateEvent(i, eva_class_name, config), Event("created", i),
                           Event("execute", i),
                           Event(IF execOk THEN "returned" ELSE "error", i)>>,
              inst |-> <<[o.val EXCEPT !.executes = @ + 1]>>,
              err |-> IF execOk THEN "none" ELSE "ExecuteError"]

----------------------------------------------------------------------------
(* base.py: loop_and_create_and_run *)

\* an entry of 'applications': a mapping or something else
MapEntry(m) == [isMap |-> TRUE, map |-> m]

NotMapEntry == [isMap |-> FALSE, map |-> EmptyMap]

AppEntries ==
    {MapEntry(("application name" :> n) @@ ("opt" :> Str(<<"a">>))) : n \in ClassNames}
    \cup {MapEntry("opt" :> Str(<<"a">>)), NotMapEntry}

\* the value under 'applications': a list, a str (it iterates as its
\* characters) or a value that does not iterate
AppsValue(kind, items) == [kind |-> kind, items |-> items]

AppsValues ==
    {AppsValue("list", s) : s \in SeqUpTo(AppEntries, MaxApps)}
    \cup {AppsValue("str", s) : s \in SeqUpTo({NotMapEntry}, MaxApps)}
    \cup {AppsValue("scalar", <<>>)}

NoApps == AppsValue("unset", <<>>)

\* the loaded document: None, or a mapping with or without 'applications'
Document(kind, apps) == [kind |-> kind, apps |-> apps]

Documents ==
    {Document("none", NoApps), Document("map", NoApps)}
    \cup {Document("map", a) : a \in AppsValues}

\* app_dict['applications']
GetApplications(app_dict) ==
    IF app_dict.kind = "none" THEN Raise("TypeError")
    ELSE IF app_dict.apps = NoApps THEN Raise("KeyError")
    ELSE Ok(app_dict.apps)

\* iter(apps), as the for statement starts
Iterable(apps) == apps.kind \in {"list", "str"}

\* app['application name']
GetApplicationName(app) ==
    IF ~app.isMap THEN Raise("TypeError")
    ELSE IF "application name" \notin DOMAIN app.map THEN Raise("KeyError")
    ELSE Ok(app.map["application name"])

\* a loop that goes on to the next entry whatever the last one did
AfterEntryContinue(err) == "loop"

\* where the for loop stands after an entry: nothing catches what it raises
AfterEntry(err) == IF err = "none" THEN "loop" ELSE "raised"

IdleRun ==
    /\ rMode = "idle"
    /\ rName = NotStr
    /\ rConfig = PathConfig
    /\ rDoc = Document("none", NoApps)
    /\ rApps = NoApps
    /\ rIdx = 0
    /\ rTrace = <<>>
    /\ rInst = <<>>
    /\ rErr = "none"
    /\ rPc = "idle"

----------------------------------------------------------------------------
(* figure_driver.py and utils.get_schema: values.  A configuration value   *)
(* is a sequence of tokens: characters, and placeholders that the batch    *)
(* substitution fills in.                                                  *)

\* text as a sequence of characters
NoneStr == <<"n", "o", "n", "e">>

Png == <<"p", "n", "g">>

\* the figure configuration keys, in the order the dicts of the model hold them
KeyOrder ==
    <<"schema", "layout", "figure size", "figure file type", "output path",
      "output name", "title", "dpi", "bogus">>

\* the keys of m, in dict order
KeysInOrder(m) == SelectSeq(KeyOrder, LAMBDA k : k \in DOMAIN m)

\* dict.get(key, default)
Get(m, key, default) == IF key \in DOMAIN m THEN m[key] ELSE default

\* m without the keys of gone
Without(m, gone) == [k \in (DOMAIN m) \ gone |-> m[k]]

\* str(n) of a channel number
Digit(d) == <<"0", "1", "2", "3", "4", "5", "6", "7", "8", "9">>[d + 1]

RECURSIVE IntToStr(_)
IntToStr(n) == IF n < 10 THEN <<Digit(n)>> ELSE IntToStr(n \div 10) \o <<Digit(n % 10)>>

\* a channel of the loop: a parsed channel number, or the str 'none'
ChannelNumber(n) == [isInt |-> TRUE, n |-> n, s |-> <<>>]

ChannelNone == [isInt |-> FALSE, n |-> 0, s |-> NoneStr]

\* str(channel)
PyStr(channel) == IF channel.isInt THEN IntToStr(channel.n) ELSE channel.s

\* str.replace('_', ' ')
ReplaceUnderscores(s) == [i \in 1..Len(s) |-> IF s[i] = "_" THEN " " ELSE s[i]]

\* str.title(): a letter is upper case after a character that is no letter,
\* and lower case after a letter
TitleCase(s) ==
    [i \in 1..Len(s) |->
        IF s[i] \notin Letters THEN s[i]
        ELSE IF i > 1 /\ s[i - 1] \in Letters THEN ToLower(s[i]) ELSE ToUpper(s[i])]

----------------------------------------------------------------------------
(* What the figure driver is given (the YAML schemas, the graphics of the  *)
(* configuration, the channel-list parser and the template substitution    *)
(* are not part of the sources modelled here)                              *)

\* defaults/figure.yaml, with and without the optional title
DefaultSchemaTitled ==
    ("layout" :> <<"1", "1">>) @@ ("figure size" :> <<"6", "8">>)
    @@ ("figure file type" :> Png) @@ ("output path" :> <<".", "/">>)
    @@ ("output name" :> <<"f">>) @@ ("title" :> <<"t">>) @@ ("dpi" :> <<"9">>)

DefaultSchemaUntitled == Without(DefaultSchemaTitled, {"title"})

DefaultSchemas == {DefaultSchemaTitled, DefaultSchemaUntitled}

\* a schema file of the user's, named under 'schema'
UserSchema == ("layout" :> <<"1", "1">>) @@ ("figure size" :> <<"6", "8">>)

\* the 'figure' blocks of the graphics
FigureLayout == ("layout" :> <<"1", "2">>) @@ ("figure size" :> <<"8", "6">>)

FigureBlocks ==
    { FigureLayout,
      FigureLayout @@ ("output name" :> <<"${variable}", "${channel}">>)
          @@ ("title" :> <<"${variable_title}">>),
      FigureLayout @@ ("bogus" :> <<"1">>),
      FigureLayout @@ ("schema" :> <<"s">>),
      FigureLayout @@ ("schema" :> <<"s">>) @@ ("figure file type" :> <<"p", "d", "f">>)
          @@ ("output path" :> <<"o">>) @@ ("output name" :> <<"${variable}">>)
          @@ ("title" :> <<"t">>) }

\* the 'plots' lists of the graphics
NoOptions == [k \in {} |-> <<>>]

Plot(layers, mapping, options) == [layers |-> layers, mapping |-> mapping, options |-> options]

PlotsLists ==
    { <<Plot(<<Str(<<"A", "b">>)>>, FALSE, "add_title" :> <<"${variable_title}">>)>>,
      <<Plot(<<Str(<<"A", "b">>)>>, TRUE, NoOptions),
        Plot(<<Str(<<"B", "b">>)>>, FALSE, NoOptions)>> }

\* the variable names of a batch
VariableNames == {<<"a", "_", "b">>, <<"a", " ", "b">>, <<"a", "b">>}

\* the channel numbers of a batch
ChannelNumbers == {ChannelNumber(1), ChannelNumber(2)}

\* the 'batch figure' block (absent or empty: no batch), with the list
\* parse_channel_list returns for its 'channels'
BatchConf(present, variables, channels) ==
    [present |-> present, variables |-> variables, channels |-> channels]

NoBatch == BatchConf(FALSE, <<>>, <<>>)

BatchConfs ==
    {NoBatch}
    \cup {BatchConf(TRUE, v, c) : v \in SeqUpTo(VariableNames, MaxVars),
                                 c \in SeqUpTo(ChannelNumbers, MaxChans)}

Graphic(batch, figure, plots) == [batch |-> batch, figure |-> figure, plots |-> plots]

Graphics ==
    {Graphic(b, f, p) : b \in BatchConfs, f \in FigureBlocks, p \in PlotsLists}

\* the placeholders and the key of the context each stands for
Placeholders ==
    ("${variable}" :> "variable") @@ ("${channel}" :> "channel")
    @@ ("${variable_title}" :> "variable_title")

\* replace_vars_dict on one value: a placeholder whose key the context
\* holds becomes the context's text
RECURSIVE FillValue(_, _)
FillValue(v, ctx) ==
    IF v = <<>> THEN <<>>
    ELSE (IF Head(v) \in DOMAIN Placeholders /\ Placeholders[Head(v)] \in DOMAIN ctx
          THEN ctx[Placeholders[Head(v)]] ELSE <<Head(v)>>)
         \o FillValue(Tail(v), ctx)

\* replace_vars_dict(figure_conf, **ctx)
FillMap(m, ctx) == [k \in DOMAIN m |-> FillValue(m[k], ctx)]

\* replace_vars_dict(plots_conf, **ctx)
FillPlots(plots, ctx) ==
    [i \in 1..Len(plots) |->
        [plots[i] EXCEPT !.options = FillMap(plots[i].options, ctx)]]

----------------------------------------------------------------------------
(* utils.py: get_schema *)

\* ignore some fields
skipvars == <<"type", "comparison">>

\* the schema file figure_conf names, or the default
SchemaOf(figure_conf, default) ==
    IF "schema" \in DOMAIN figure_conf THEN UserSchema ELSE default

\* bool(x) of a list
Truthy(list) == list # <<>>

\* the test of the update loop: key in fullConfig or skipvars
KeyAccepted(key, fullConfig) == key \in DOMAIN fullConfig \/ Truthy(skipvars)

\* the update loop over configDict.items(), from the keys still to do
RECURSIVE UpdateFullConfig(_, _, _)
UpdateFullConfig(fullConfig, keys, configDict) ==
    IF keys = <<>> THEN Ok(fullConfig)
    ELSE IF KeyAccepted(Head(keys), fullConfig)
         THEN UpdateFullConfig((Head(keys) :> configDict[Head(keys)]) @@ fullConfig,
                               Tail(keys), configDict)
         ELSE Raise("ValueError")

\* get_schema(YamlFile, configDict): schema is what the file holds
get_schema(schema, configDict) ==
    UpdateFullConfig(schema, KeysInOrder(configDict), configDict)

----------------------------------------------------------------------------
(* figure_driver.py: FigureDriver *)

\* a context whose title leaves the channel out
BatchContextPlainTitle(variable, channel) ==
    LET title == TitleCase(ReplaceUnderscores(variable))
        channel_str == PyStr(channel)
    IN  IF channel_str # NoneStr
        THEN ("variable" :> variable) @@ ("variable_title" :> title)
             @@ ("channel" :> channel_str)
        ELSE ("variable" :> variable) @@ ("variable_title" :> title)

\* lines 72-80: the substitution context of one (variable, channel)
BatchContext(variable, channel) ==
    LET title == TitleCase(ReplaceUnderscores(variable))
        channel_str == PyStr(channel)
    IN  IF channel_str # NoneStr
        THEN ("variable" :> variable)
             @@ ("variable_title" :> title \o <<" ", "C", "h", ".", " ">> \o channel_str)
             @@ ("channel" :> channel_str)
        ELSE ("variable" :> variable) @@ ("variable_title" :> title)

\* lines 66-67: the channels the loops run over
LoopChannels(channels) == IF channels = <<>> THEN <<ChannelNone>> ELSE channels

\* loops that run channels outside and variables inside
NextPairChannelsOuter(vi, ci, nv, nc) ==
    IF vi < nv THEN <<vi + 1, ci>>
    ELSE IF ci < nc THEN <<1, ci + 1>> ELSE <<nv + 1, 1>>

\* lines 70-71: the pair after (vi, ci); <<nv + 1, 1>> once both loops end
NextPair(vi, ci, nv, nc) == IF ci < nc THEN <<vi, ci + 1>> ELSE <<vi + 1, 1>>

\* os.path.join(file_path, output_name)
PathJoin(a, b) ==
    IF b # <<>> /\ Head(b) = "/" THEN b
    ELSE IF a = <<>> \/ a[Len(a)] = "/" THEN a \o b
    ELSE a \o <<"/">> \o b

get_output_file(figure_conf) ==
    PathJoin(Get(figure_conf, "output path", <<".", "/">>),
             Get(figure_conf, "output name", <<>>))

delvars == <<"layout", "figure file type", "output path", "figure size", "title">>

\* the del loop of get_saveargs, from the keys still to delete
RECURSIVE DeleteKeys(_, _)
DeleteKeys(out_conf, keys) ==
    IF keys = <<>> THEN Ok(out_conf)
    ELSE IF Head(keys) \notin DOMAIN out_conf THEN Raise("KeyError")
    ELSE DeleteKeys(Without(out_conf, {Head(keys)}), Tail(keys))

get_saveargs(figure_conf) ==
    IF "figure file type" \notin DOMAIN figure_conf THEN Raise("KeyError")
    ELSE DeleteKeys(("format" :> figure_conf["figure file type"]) @@ figure_conf, delvars)

\* lines 107-112: the class of a layer's type
ResolveLayer(type) ==
    LET m == camelcase_to_underscore(type)
    IN  IF ~m.ok THEN Raise(m.err)
        ELSE IF m.val \notin DOMAIN DiagnosticModules THEN Raise("ModuleNotFoundError")
        ELSE IF \A c \in DiagnosticModules[m.val] : c.cls # type.s THEN Raise("AttributeError")
        ELSE Ok(type.s)

\* lines 103-133: the subplots, or the first error of a layer
RECURSIVE ResolveLayers(_)
ResolveLayers(layers) ==
    IF layers = <<>> THEN Ok(<<>>)
    ELSE LET first == ResolveLayer(Head(layers))
             rest == ResolveLayers(Tail(layers))
         IN  IF ~first.ok THEN first
             ELSE IF ~rest.ok THEN rest
             ELSE Ok(<<first.val>> \o rest.val)

Subplot(plot, layer_list) ==
    [layers |-> layer_list,
     projection |-> IF plot.mapping THEN "plcarr" ELSE "none",
     domain |-> IF plot.mapping THEN "global" ELSE "none",
     applied |-> plot.options]

RECURSIVE PlotList(_)
PlotList(plots) ==
    IF plots = <<>> THEN Ok(<<>>)
    ELSE LET layer_list == ResolveLayers(Head(plots).layers)
         IN  IF ~layer_list.ok THEN layer_list
             ELSE LET rest == PlotList(Tail(plots))
                  IN  IF ~rest.ok THEN rest
                      ELSE Ok(<<Subplot(Head(plots), layer_list.val)>> \o rest.val)

\* what one call of make_figure did
FigureCall(ctx, figure_conf, plots, output_file, created, title, saveargs, saves, closes, err) ==
    [ctx |-> ctx, figure_conf |-> figure_conf, plots |-> plots,
     output_file |-> output_file, created |-> created, title |-> title,
     saveargs |-> saveargs, saves |-> saves, closes |-> closes, err |-> err]

\* lines 142-145: get_saveargs, save_figure, close_figure; saveOk is whether
\* save_figure returns or raises
SaveAndClose(saveargs, saveOk) ==
    IF ~saveargs.ok THEN [saves |-> 0, closes |-> 0, err |-> saveargs.err]
    ELSE IF ~saveOk THEN [saves |-> 0, closes |-> 0, err |-> "SaveError"]
    ELSE [saves |-> 1, closes |-> 1, err |-> "none"]

\* make_figure(figure_conf, plots, data_collections), run for context ctx
make_figure(ctx, figure_conf, plots, saveOk) ==
    LET output_file == get_output_file(figure_conf)
        plot_list == PlotList(plots)
        title == Get(figure_conf, "title", <<>>)
    IN  IF ~plot_list.ok
        THEN FigureCall(ctx, figure_conf, plots, output_file, FALSE, <<>>, NoResult, 0, 0,
                        plot_list.err)
        ELSE IF ~({"layout", "figure size"} \subseteq DOMAIN figure_conf)
        THEN FigureCall(ctx, figure_conf, plots, output_file, FALSE, <<>>, NoResult, 0, 0,
                        "KeyError")
        ELSE LET saveargs == get_saveargs(figure_conf)
                 end == SaveAndClose(saveargs, saveOk)
             IN  FigureCall(ctx, figure_conf, plots, output_file, TRUE, title, saveargs,
                            end.saves, end.closes, end.err)

NoContext == [k \in {} |-> <<>>]

IdleFig ==
    /\ fDefault = DefaultSchemaTitled
    /\ fGraphicNo = 0
    /\ fGraphic = Graphic(NoBatch, FigureLayout, <<>>)
    /\ fMerge = NoResult
    /\ fChannels = <<>>
    /\ fVi = 0
    /\ fCi = 0
    /\ fCalls = <<>>
    /\ fErr = "none"
    /\ fPc = "idle"

----------------------------------------------------------------------------
(* Entry point "name": one call of camelcase_to_underscore *)

NameChars == Letters \cup {"1"}

NameInputs == {Str(s) : s \in SeqUpTo(NameChars, MaxNameLen)} \cup {NotStr}

IdleName == ccIn = NotStr /\ ccOut = NoResult /\ ccPc = "idle"

InitName ==
    /\ comp = "name"
    /\ ccIn \in NameInputs
    /\ ccOut = NoResult
    /\ ccPc = "call"
    /\ IdleRun
    /\ IdleFig

CallCamelcase ==
    /\ ccPc = "call"
    /\ ccOut' = camelcase_to_underscore(ccIn)
    /\ ccPc' = "done"
    /\ UNCHANGED <<comp, ccIn, runVars, figVars>>

----------------------------------------------------------------------------
(* Entry point "run": main() calls create_and_run when an application name *)
(* is given, and loop_and_create_and_run otherwise                         *)

InitRun ==
    /\ comp = "run"
    /\ IdleName
    /\ IdleFig
    /\ rApps = NoApps
    /\ rIdx = 0
    /\ rTrace = <<>>
    /\ rInst = <<>>
    /\ rErr = "none"
    /\ \/ /\ rMode = "one"
          /\ rPc = "one"
          /\ rName \in ClassNames
          /\ rConfig \in {PathConfig, DictConfig(YamlDocument)}
          /\ rDoc = Document("none", NoApps)
       \/ /\ rMode = "many"
          /\ rPc = "many"
          /\ rName = NotStr
          /\ rConfig = PathConfig
          /\ rDoc \in Documents

\* create_and_run(application, config)
RunOne ==
    /\ rPc = "one"
    /\ \E execOk \in BOOLEAN :
         LET r == create_and_run(rName, rConfig, 1, execOk)
         IN  /\ rTrace' = rTrace \o r.events
             /\ rInst' = rInst \o r.inst
             /\ rErr' = r.err
             /\ rPc' = IF r.err = "none" THEN "returned" ELSE "raised"
    /\ UNCHANGED <<comp, nameVars, figVars, rMode, rName, rConfig, rDoc, rApps, rIdx>>

\* loop_and_create_and_run up to the for statement: load the file, get the
\* list of applications or abort, and start iterating
LoadApplications ==
    /\ rPc = "many"
    /\ LET got == GetApplications(rDoc)
       IN  IF ~got.ok
           THEN /\ rPc' = "aborted"
                /\ rErr' = "SystemExit"
                /\ UNCHANGED <<rApps, rIdx>>
           ELSE /\ rApps' = got.val
                /\ IF Iterable(got.val)
                   THEN rPc' = "loop" /\ rIdx' = 1 /\ rErr' = rErr
                   ELSE rPc' = "raised" /\ rIdx' = rIdx /\ rErr' = "TypeError"
    /\ UNCHANGED <<comp, nameVars, figVars, rMode, rName, rConfig, rDoc, rTrace, rInst>>

\* one pass of the for loop: the next entry is created and run
LoopEntry ==
    /\ rPc = "loop"
    /\ rIdx <= Len(rApps.items)
    /\ LET app == rApps.items[rIdx]
           app_name == GetApplicationName(app)
       IN  IF ~app_name.ok
           THEN /\ rTrace' = Append(rTrace, Event("error", rIdx))
                /\ rInst' = rInst
                /\ rErr' = app_name.err
                /\ rPc' = AfterEntry(app_name.err)
           ELSE \E execOk \in BOOLEAN :
                  LET r == create_and_run(app_name.val, DictConfig(app.map), rIdx, execOk)
                  IN  /\ rTrace' = rTrace \o r.events
                      /\ rInst' = rInst \o r.inst
                      /\ rErr' = r.err
                      /\ rPc' = AfterEntry(r.err)
    /\ rIdx' = rIdx + 1
    /\ UNCHANGED <<comp, nameVars, figVars, rMode, rName, rConfig, rDoc, rApps>>

\* the for loop is exhausted: loop_and_create_and_run returns
LoopExit ==
    /\ rPc = "loop"
    /\ rIdx > Len(rApps.items)
    /\ rPc' = "returned"
    /\ UNCHANGED <<comp, nameVars, figVars, rMode, rName, rConfig, rDoc, rApps, rIdx, rTrace, rInst, rErr>>

----------------------------------------------------------------------------
(* Entry point "fig": FigureDriver.execute *)

InitFig ==
    /\ comp = "fig"
    /\ IdleName
    /\ IdleRun
    /\ fDefault \in DefaultSchemas
    /\ fGraphicNo = 0
    /\ fGraphic = Graphic(NoBatch, FigureLayout, <<>>)
    /\ fMerge = NoResult
    /\ fChannels = <<>>
    /\ fVi = 0
    /\ fCi = 0
    /\ fCalls = <<>>
    /\ fErr = "none"
    /\ fPc = "graphic"

\* lines 40-67 and 90-92: the loop takes the next graphic, merges its
\* figure block into the schema and, without a batch, makes its one figure
TakeGraphic ==
    /\ fPc = "graphic"
    /\ fGraphicNo < MaxGraphics
    /\ \E graphic \in Graphics, saveOk \in BOOLEAN :
         LET figure_conf == get_schema(SchemaOf(graphic.figure, fDefault), graphic.figure)
             call == make_figure(NoContext, figure_conf.val, graphic.plots, saveOk)
         IN  /\ fGraphic' = graphic
             /\ fMerge' = figure_conf
             /\ fGraphicNo' = fGraphicNo + 1
             /\ IF ~figure_conf.ok
                THEN /\ fPc' = "raised"
                     /\ fErr' = figure_conf.err
                     /\ fCalls' = <<>>
                     /\ fChannels' = <<>> /\ fVi' = 0 /\ fCi' = 0
                ELSE IF graphic.batch.present
                THEN /\ fCalls' = <<>>
                     /\ fChannels' = LoopChannels(graphic.batch.channels)
                     /\ fVi' = 1 /\ fCi' = 1
                     /\ IF graphic.batch.variables = <<>>
                        THEN fPc' = "aborted" /\ fErr' = "abort"
                        ELSE fPc' = "batch" /\ fErr' = "none"
                ELSE /\ fCalls' = <<call>>
                     /\ fChannels' = <<>> /\ fVi' = 0 /\ fCi' = 0
                     /\ fErr' = call.err
                     /\ fPc' = IF call.err = "none" THEN "end" ELSE "raised"
    /\ UNCHANGED <<comp, nameVars, runVars, fDefault>>

\* lines 70-89: one pass of the inner loop makes the figure of a
\* (variable, channel)
BatchFigure ==
    /\ fPc = "batch"
    /\ \E saveOk \in BOOLEAN :
         LET variables == fGraphic.batch.variables
             batch_conf_this == BatchContext(variables[fVi], fChannels[fCi])
             figure_conf_fill == FillMap(fMerge.val, batch_conf_this)
             plots_conf_fill == FillPlots(fGraphic.plots, batch_conf_this)
             call == make_figure(batch_conf_this, figure_conf_fill, plots_conf_fill, saveOk)
             next == NextPair(fVi, fCi, Len(variables), Len(fChannels))
         IN  /\ fCalls' = Append(fCalls, call)
             /\ fErr' = call.err
             /\ IF call.err # "none"
                THEN fPc' = "raised" /\ fVi' = fVi /\ fCi' = fCi
                ELSE /\ fVi' = next[1]
                     /\ fCi' = next[2]
                     /\ fPc' = IF next[1] > Len(variables) THEN "end" ELSE "batch"
    /\ UNCHANGED <<comp, nameVars, runVars, fDefault, fGraphicNo, fGraphic, fMerge, fChannels>>

\* line 40: the loop goes on to the next graphic
NextGraphic ==
    /\ fPc = "end"
    /\ fPc' = "graphic"
    /\ fGraphic' = Graphic(NoBatch, FigureLayout, <<>>)
    /\ fMerge' = NoResult
    /\ fChannels' = <<>>
    /\ fVi' = 0
    /\ fCi' = 0
    /\ fCalls' = <<>>
    /\ UNCHANGED <<comp, nameVars, runVars, fDefault, fGraphicNo, fErr>>

\* line 40: no graphic is left, execute returns
ExecuteReturns ==
    /\ fPc = "graphic"
    /\ fPc' = "done"
    /\ UNCHANGED <<comp, nameVars, runVars, fDefault, fGraphicNo, fGraphic, fMerge,
                   fChannels, fVi, fCi, fCalls, fErr>>

----------------------------------------------------------------------------

Init == InitName \/ InitRun \/ InitFig

Next ==
    \/ CallCamelcase
    \/ RunOne
    \/ LoadApplications
    \/ LoopEntry
    \/ LoopExit
    \/ TakeGraphic
    \/ BatchFigure
    \/ NextGraphic
    \/ ExecuteReturns

Spec == Init /\ [][Next]_vars

----------------------------------------------------------------------------
(* C9: for every alphabetic CamelCase string S, camelcase_to_underscore(S) *)
(* has no leading underscore, and turning every '_x' of the result back    *)
(* into the upper case X, with the first letter capitalised again,         *)
(* reconstructs S.                                                         *)

\* the inverse the claim describes
RECURSIVE ReinstateBoundaries(_)
ReinstateBoundaries(u) ==
    IF u = <<>> THEN <<>>
    ELSE IF Head(u) = "_" /\ Len(u) >= 2
         THEN <<ToUpper(u[2])>> \o ReinstateBoundaries(Tail(Tail(u)))
         ELSE <<Head(u)>> \o ReinstateBoundaries(Tail(u))

Reinstate(u) ==
    IF u = <<>> THEN <<>>
    ELSE ReinstateBoundaries(<<ToUpper(Head(u))>> \o Tail(u))

\* CamelCase: alphabetic, starting with a capital
IsCamelCase(x) == x.isStr /\ IsAlpha(x.s) /\ IsUpper(x.s[1])

C9_RoundTrip ==
    (ccPc = "done" /\ IsCamelCase(ccIn)) =>
        /\ ccOut.ok
        /\ Len(ccOut.val) > 0
        /\ ccOut.val[1] # "_"
        /\ Reinstate(ccOut.val) = ccIn.s

C9_Witness ==
    /\ ccPc = "done"
    /\ ccIn = Str(<<"A", "b", "B">>)
    /\ ccOut = Ok(<<"a", "b", "_", "b">>)

----------------------------------------------------------------------------
(* C1: for every resolvable class name and every dict configuration,       *)
(* create_and_run constructs the diagnostic without error, the instance    *)
(* holds a Configuration with exactly the keys and values of the dict, and *)
(* execute() is called on it exactly once.                                 *)

\* the name resolves to a class that is constructed by Base.__init__
ResolvesToBase(name) ==
    LET m == camelcase_to_underscore(name)
    IN  /\ m.ok
        /\ m.val \in DOMAIN DiagnosticModules
        /\ \E c \in DiagnosticModules[m.val] : c.cls = name.s /\ ~c.ownInit

RunOneEnded == rMode = "one" /\ rPc \in {"returned", "raised"}

C1_ConstructsAndExecutes ==
    (RunOneEnded /\ ResolvesToBase(rName) /\ rConfig.isDict) =>
        /\ \E p \in 1..Len(rTrace) : rTrace[p].ev = "created"
        /\ Len(rInst) = 1
        /\ rInst[1].hasConfig
        /\ rInst[1].config = rConfig.map
        /\ rInst[1].executes = 1

----------------------------------------------------------------------------
(* C4: loop_and_create_and_run runs the entries of 'applications' in       *)
(* listed order and one at a time: entry i is created with its             *)
(* 'application name' as class name and the entry itself as configuration, *)
(* execute() of entry i has returned before entry i+1 is created, and an   *)
(* error raised by entry k propagates, so that no entry after k is         *)
(* created or executed.                                                    *)

CreatesUpTo(p) == Cardinality({q \in 1..p : rTrace[q].ev = "create"})

C4_InOrderOneAtATime ==
    rMode = "many" =>
        \A p \in 1..Len(rTrace) :
            LET e == rTrace[p]
            IN  /\ e.i \in 1..Len(rApps.items)
                /\ \A q \in 1..(p - 1) : rTrace[q].i <= e.i
                /\ e.ev = "create" =>
                      /\ e.i = CreatesUpTo(p)
                      /\ rApps.items[e.i].isMap
                      /\ e.name = rApps.items[e.i].map["application name"]
                      /\ e.config = DictConfig(rApps.items[e.i].map)
                      /\ \A q \in 1..(p - 1) : rTrace[q].i < e.i
                      /\ p > 1 => rTrace[p - 1] = Event("returned", e.i - 1)
                /\ e.ev = "error" =>
                      /\ p = Len(rTrace)
                      /\ rPc = "raised"
                      /\ rErr # "none"

\* the first of three entries ran and returned, the second raised, and the
\* third was never created
C4_Witness ==
    /\ rMode = "many"
    /\ rPc = "raised"
    /\ Len(rApps.items) = 3
    /\ \E p \in 1..Len(rTrace) : rTrace[p] = Event("returned", 1)
    /\ rTrace[Len(rTrace)] = Event("error", 2)
    /\ rErr = "ExecuteError"
    /\ GetApplicationName(rApps.items[3]).ok

----------------------------------------------------------------------------
(* C8: loop_and_create_and_run ends with the fatal abort whenever the      *)
(* document has no 'applications' key or the value is not a sequence of    *)
(* mappings that each hold an 'application name'; in none of these cases   *)
(* does it end with another error or return normally.                      *)

Malformed(doc) ==
    \/ doc.kind = "none"
    \/ doc.apps = NoApps
    \/ doc.apps.kind # "list"
    \/ \E i \in 1..Len(doc.apps.items) : ~GetApplicationName(doc.apps.items[i]).ok

RunManyEnded == rMode = "many" /\ rPc \in {"returned", "aborted", "raised"}

C8_MalformedAborts == (RunManyEnded /\ Malformed(rDoc)) => rPc = "aborted"

----------------------------------------------------------------------------
(* The batch of the graphic in hand, as the claims about it speak of it *)

BatchVariables == fGraphic.batch.variables

BatchChannels == fGraphic.batch.channels

\* a batch whose loops were entered
InBatch ==
    /\ comp = "fig"
    /\ fPc \in {"batch", "end", "raised"}
    /\ fGraphic.batch.present
    /\ BatchVariables # <<>>

ChannelsPerVariable == IF Len(BatchChannels) > 1 THEN Len(BatchChannels) ELSE 1

PairCount == Len(BatchVariables) * ChannelsPerVariable

\* the variable and the channel of the k-th pair, variables outside
VariableOfPair(k) == BatchVariables[((k - 1) \div ChannelsPerVariable) + 1]

ChannelOfPair(k) == BatchChannels[((k - 1) % ChannelsPerVariable) + 1]

TitleOfCall(k) == fCalls[k].ctx["variable_title"]

TitleForm(variable) == TitleCase(ReplaceUnderscores(variable))

----------------------------------------------------------------------------
(* C2: get_schema applies this rule to every key of the overrides: a key   *)
(* of the base schema, or one of the ignored keys 'type' and 'comparison', *)
(* gets the override value in the merged result; any other key makes the   *)
(* merge fail with an error naming it, and no merged mapping is returned.  *)

UnknownKeys(base, overrides) ==
    {k \in DOMAIN overrides : k \notin DOMAIN base /\ k \notin {"type", "comparison"}}

C2_UnknownKeyRejected ==
    (comp = "fig" /\ fMerge # NoResult) =>
        LET base == SchemaOf(fGraphic.figure, fDefault)
            overrides == fGraphic.figure
        IN  IF UnknownKeys(base, overrides) = {}
            THEN /\ fMerge.ok
                 /\ \A k \in DOMAIN overrides : fMerge.val[k] = overrides[k]
            ELSE ~fMerge.ok

----------------------------------------------------------------------------
(* C3, as stated: for every non-empty variables list V and every parsed    *)
(* channel list C, the batch makes exactly len(V) * max(len(C), 1)         *)
(* make_figure calls and their variable_title values are pairwise          *)
(* distinct.                                                               *)

C3_AllTitlesDistinct ==
    (InBatch /\ fPc = "end") =>
        /\ Len(fCalls) = PairCount
        /\ \A i, j \in 1..Len(fCalls) : i # j => TitleOfCall(i) # TitleOfCall(j)

(* C3, amended: the batch never makes more than len(V) * max(len(C), 1)    *)
(* make_figure calls and makes exactly that many when no call raises; the  *)
(* variable_title values of two pairs are equal exactly when the two       *)
(* variables have the same title form (underscores as spaces, title-cased) *)
(* and the two channels are the same.                                      *)

SameChannel(i, j) == BatchChannels = <<>> \/ ChannelOfPair(i) = ChannelOfPair(j)

C3_TitlesDistinctUpToTitleForm ==
    InBatch =>
        /\ Len(fCalls) <= PairCount
        /\ fPc = "end" => Len(fCalls) = PairCount
        /\ \A i, j \in 1..Len(fCalls) :
              (TitleOfCall(i) = TitleOfCall(j))
                  <=> (/\ TitleForm(VariableOfPair(i)) = TitleForm(VariableOfPair(j))
                       /\ SameChannel(i, j))

\* two different variables with one title form, over two channels: four
\* figures, two titles
C3_Witness ==
    /\ InBatch
    /\ fPc = "end"
    /\ BatchVariables = << <<"a", "_", "b">>, <<"a", " ", "b">> >>
    /\ Len(BatchChannels) = 2
    /\ BatchChannels[1] # BatchChannels[2]
    /\ Len(fCalls) = 4
    /\ TitleOfCall(1) = TitleOfCall(3)
    /\ TitleOfCall(1) # TitleOfCall(2)

----------------------------------------------------------------------------
(* C5: for every merged figure configuration, with or without 'title' and  *)
(* 'figure file type', get_saveargs succeeds and returns the configuration *)
(* without 'layout', 'figure file type', 'output path', 'figure size' and  *)
(* 'title', plus 'format' set to the 'figure file type' or to 'png' when   *)
(* that key is absent; every other key passes through unchanged.           *)

ExpectedSaveargs(figure_conf) ==
    ("format" :> Get(figure_conf, "figure file type", Png))
    @@ Without(figure_conf,
               {"layout", "figure file type", "output path", "figure size", "title"})

C5_SaveargsAlwaysSucceed ==
    comp = "fig" =>
        \A k \in 1..Len(fCalls) :
            fCalls[k].created =>
                /\ fCalls[k].saveargs.ok
                /\ fCalls[k].saveargs.val = ExpectedSaveargs(fCalls[k].figure_conf)

----------------------------------------------------------------------------
(* C6: in make_figure every figure that has been created is closed exactly *)
(* once after the save attempt, when save_figure succeeds and when it      *)
(* fails; no make_figure ends with a created figure left unclosed.         *)

SaveAttempted(call) == call.created /\ call.saveargs.ok

C6_CreatedFigureClosed ==
    comp = "fig" =>
        \A k \in 1..Len(fCalls) : SaveAttempted(fCalls[k]) => fCalls[k].closes = 1

----------------------------------------------------------------------------
(* C7: when a batch is expanded into n figures, each of the n figures is   *)
(* saved exactly once and the n output paths, each the join of 'output     *)
(* path' (default './') and 'output name' (default empty), are pairwise    *)
(* distinct: no figure of the batch is saved over another.                 *)

C7_OutputPathsDistinct ==
    (InBatch /\ fPc = "end") =>
        /\ \A k \in 1..Len(fCalls) : fCalls[k].saves = 1
        /\ \A i, j \in 1..Len(fCalls) :
              i # j => fCalls[i].output_file # fCalls[j].output_file

----------------------------------------------------------------------------
(* C10: the batch visits the pairs variables outside, channels inside; the *)
(* context of a pair holds 'variable', the raw name, and 'variable_title', *)
(* the name with underscores as spaces, title-cased; with an empty channel *)
(* list the single sentinel is used and the context has no 'channel';      *)
(* otherwise 'channel' is the channel as a string and ' Ch. <channel>' is  *)
(* appended to the title.  The make_figure calls follow this order, each   *)
(* with the figure and plots configuration filled from its own context.    *)

ExpectedContext(k) ==
    IF BatchChannels = <<>>
    THEN ("variable" :> VariableOfPair(k))
         @@ ("variable_title" :> TitleForm(VariableOfPair(k)))
    ELSE ("variable" :> VariableOfPair(k))
         @@ ("variable_title" :>
                TitleForm(VariableOfPair(k)) \o <<" ", "C", "h", ".", " ">>
                \o IntToStr(ChannelOfPair(k).n))
         @@ ("channel" :> IntToStr(ChannelOfPair(k).n))

C10_PairsInOrder ==
    InBatch =>
        /\ BatchChannels = <<>> => fChannels = <<ChannelNone>>
        /\ Len(fCalls) <= PairCount
        /\ \A k \in 1..Len(fCalls) :
              /\ fCalls[k].ctx = ExpectedContext(k)
              /\ DOMAIN fCalls[k].ctx =
                    IF BatchChannels = <<>> THEN {"variable", "variable_title"}
                    ELSE {"variable", "variable_title", "channel"}
              /\ fCalls[k].figure_conf = FillMap(fMerge.val, ExpectedContext(k))
              /\ fCalls[k].plots = FillPlots(fGraphic.plots, ExpectedContext(k))

\* two variables over two channels, all four figures made, with an output
\* name that the context fills
C10_Witness ==
    /\ InBatch
    /\ fPc = "end"
    /\ BatchVariables = << <<"a", "_", "b">>, <<"a", "b">> >>
    /\ BatchChannels = <<ChannelNumber(2), ChannelNumber(1)>>
    /\ Len(fCalls) = 4
    /\ fCalls[2].ctx["variable"] = <<"a", "_", "b">>
    /\ fCalls[2].ctx["channel"] = <<"1">>
    /\ fCalls[3].ctx["variable_title"] = <<"A", "b", " ", "C", "h", ".", " ", "2">>
    /\ fCalls[3].figure_conf["output name"] = <<"a", "b", "2">>

====
